---- MODULE Spec2Model ----
(***************************************************************************)
(* Verification model of the GitHub issue notebook kernel                  *)
(* (IssuesNotebookProvider, NotebookCellExecution, cmp) and of the symbol  *)
(* table of the query language.                                            *)
(*                                                                         *)
(* Spec     : cancellable, re-entrant cell execution.  One step is one     *)
(*            run-to-completion slice of the event loop: the code between  *)
(*            two awaits of a run, or one host event.  The items a run     *)
(*            fetches are counted in pages.                                *)
(* AggSpec  : the data path of _doExecuteCell for one run that stays the   *)
(*            latest: paging, concatenation, sort, render, resolve, with   *)
(*            the items and totals the search responses carry.             *)
(* PageSpec : the paging loops of _doExecuteCell for one run that may be    *)
(*            cancelled, with short pages, full pages of 100 items and the *)
(*            totals the responses report.                                 *)
(* DocSpec  : executeAllCells over a document of several cells, on top of   *)
(*            the cell runs of Spec, with the host cancelling and          *)
(*            re-running cells and the document.                           *)
(* SymSpec  : the process-wide symbol table of symbols.ts under a sequence *)
(*            of fillSymbols calls for the trees of several documents.     *)
(* LockSpec : setCellLockState and setDocumentLockState with the host      *)
(*            calling the undo and redo callbacks it was handed.           *)
(***************************************************************************)
EXTENDS Integers, Sequences, FiniteSets, TLC

\* ------------------------------------------------------------------ bounds
MaxRuns == 2             \* NotebookCellExecution objects ever constructed
MaxQueries == 2          \* sub-queries (allQueryData.length) of one run
MaxRequests == 2         \* search requests one run may issue
AggMaxQueries == 3       \* AggSpec: sub-queries of the run
AggMaxRequests == 3      \* AggSpec: search responses the run receives
AggMaxItems == 3         \* AggSpec: items all responses of the run carry
MaxDocRuns == 2          \* DocSpec: NotebookDocumentExecution objects constructed
PageMaxQueries == 2      \* PageSpec: sub-queries of the run
PageMaxRequests == 2     \* PageSpec: short pages the run receives
SymMaxCalls == 3         \* SymSpec: calls of fillSymbols
MaxEdits == 3            \* LockSpec: edits on the host's undo stack

\* --------------------------------------------------------------- constants
ResultCap == 1000        \* Math.min(1000, total_count); total_count > 1000
PerPage == 100           \* per_page: 100

\* Spec follows the runs of one cell: the static token pool and the maps keyed
\* by cell are all that two cells share
Cells == {1}
NoToken == 0 - 1         \* WeakMap.get() of an absent key: undefined
NoExecution == 0         \* _cellExecutions.get() of an absent key: undefined

\* ------------------------------------------------------------------ state
VARIABLES
    tokenPool,       \* NotebookCellExecution._tokenPool
    tokens,          \* NotebookCellExecution._tokens : cell -> token
    cellExecutions,  \* IssuesNotebookProvider._cellExecutions : cell -> run
    cells,           \* cell -> metadata and outputs of the cell
    executions,      \* the NotebookCellExecution objects, in construction order
    history,         \* per run: what an observer recorded (not read by the code)
    \* AggSpec: the locals of _doExecuteCell and what it commits
    allQueryData,    \* project.queryData(doc): <<[sort, order], ...>>
    aggPc,           \* "start", "fetch", "resolved", "rejected"
    queryIndex,      \* position of the for loop in allQueryData
    page,            \* let page
    count,           \* let count (of the paging loop)
    allItems,        \* let allItems
    tooLarge,        \* let tooLarge
    cellOutput,      \* what resolve / reject committed to cell.outputs
    statusMessage,   \* what resolve / reject committed as status message
    responseLog,     \* observer: the responses in arrival order
    cancelled,       \* execution.cts.token.isCancellationRequested of that run
    totals,          \* observer (PageSpec): the total_count of each response
    \* DocSpec
    cellKinds,       \* document.cells: per cell "code" (a runnable code cell),
                     \* "markdown" or "locked" (a code cell that is not runnable)
    docTokenPool,    \* NotebookDocumentExecution._tokenPool
    docToken,        \* NotebookDocumentExecution._tokens.get(document)
    docExecution,    \* IssuesNotebookProvider._documentExecutions.get(document)
    docRunState,     \* document.metadata.runState
    docExecutions,   \* the NotebookDocumentExecution objects, in construction order
    \* SymSpec
    symbols,         \* symbols.ts: let symbols: SymbolTable
    symCall,         \* observer: the last call of fillSymbols and the table before it
    \* LockSpec
    cellMetadata,    \* cell.metadata of each cell (editable, runnable)
    notebookMetadata,\* notebook.metadata (editable, cellEditable, ...)
    edits,           \* the host's undo stack: the events fired on _onDidChangeNotebook
    editPos          \* how many of them are applied (the rest was undone)

execVars == <<tokenPool, tokens, cellExecutions, cells, executions, history>>
aggVars == <<allQueryData, aggPc, queryIndex, page, count, allItems, tooLarge,
             cellOutput, statusMessage, responseLog, cancelled>>
symVars == <<symbols, symCall>>
lockVars == <<cellMetadata, notebookMetadata, edits, editPos>>
vars == <<tokenPool, tokens, cellExecutions, cells, executions, history,
          allQueryData, aggPc, queryIndex, page, count, allItems, tooLarge,
          cellOutput, statusMessage, responseLog, cancelled, totals,
          symbols, symCall, cellKinds, docTokenPool, docToken, docExecution,
          docRunState, docExecutions, cellMetadata, notebookMetadata, edits,
          editPos>>
docVars == <<cellKinds, docTokenPool, docToken, docExecution, docRunState,
             docExecutions>>
\* what the actions of one part leave alone
notExecVars == <<aggVars, totals, symVars, docVars, lockVars>>
notAggVars == <<execVars, symVars, docVars, lockVars>>
notSymVars == <<execVars, aggVars, totals, docVars, lockVars>>
notDocVars == <<aggVars, totals, symVars, lockVars>>
notLockVars == <<execVars, aggVars, totals, symVars, docVars>>

\* cell.metadata.runState is "undefined" (never set), "Idle", "Running",
\* "Success" or "Error"

\* the single output reject() commits: { outputKind: Error, ename, evalue, traceback: [] }
ErrorOutput == [outputKind |-> "Error", pages |-> 0]
\* the single output _doExecuteCell commits on success; allItems is counted in
\* pages here (the number of responses concatenated into it)
RichOutput(n) == [outputKind |-> "Rich", pages |-> n]

\* a freshly opened cell: outputs: [], metadata: { editable, runnable: true }
NewCell ==
    [runState |-> "undefined", runStartTime |-> 0, lastRunDuration |-> 0,
     statusMessage |-> "undefined", outputs |-> <<>>]

\* The mutable world the methods of NotebookCellExecution read and write.
World == [tokens |-> tokens, cells |-> cells, executions |-> executions]

\* pc of a run: "open" awaiting openTextDocument, "lib" awaiting octokit.lib(),
\* "fetch" awaiting a search response; settled: "resolved" returned after
\* execution.resolve, "rejected" returned from the catch block, "threw" left
\* by an exception.  nq, qi, nreq, pages and aborted are locals of
\* _doExecuteCell (allQueryData.length, the position of the for loop, the
\* requests issued, the pages in allItems, abortCtl.signal.aborted): they
\* exist while the run is in flight.
InFlight(e) == e.pc \in {"open", "lib", "fetch"}

\* ------------------------------------------------ NotebookCellExecution
_isLatest(W, r) == W.tokens[W.executions[r].cell] = W.executions[r].token

nextToken_Reuse(pool) == pool

\* private readonly _token: number = NotebookCellExecution._tokenPool++
nextToken(pool) == pool + 1

\* new NotebookCellExecution(cell), with the token drawn from the pool
NewExecution(W, c, token) ==
    LET r == Len(W.executions) + 1
        e == [cell |-> c, token |-> token,
              originalRunState |-> W.cells[c].runState,
              cts |-> FALSE, aborted |-> FALSE, pc |-> "open",
              nq |-> 0, qi |-> 0, nreq |-> 0, pages |-> 0]
    IN [W EXCEPT !.tokens[c] = token,
                 !.cells[c].runState = "Running",
                 !.cells[c].runStartTime = r,
                 !.executions = Append(@, e)]

cancel_NoRestore(W, r) ==
    LET e == W.executions[r]
    IN IF _isLatest(W, r)
       THEN [W EXCEPT !.executions[r].cts = TRUE,
                      !.executions[r].aborted = @ \/ e.pc \in {"lib", "fetch"},
                      !.tokens[e.cell] = NoToken]
       ELSE W

\* cancel(): cts.cancel() runs the abort listener _doExecuteCell registered,
\* which exists while the run is inside its fetch try block
cancel(W, r) ==
    LET e == W.executions[r]
    IN IF _isLatest(W, r)
       THEN [W EXCEPT !.executions[r].cts = TRUE,
                      !.executions[r].aborted = @ \/ e.pc \in {"lib", "fetch"},
                      !.cells[e.cell].runState = e.originalRunState,
                      !.tokens[e.cell] = NoToken]
       ELSE W

resolve_Unguarded(W, r, outputs, message) ==
    LET c == W.executions[r].cell
    IN [W EXCEPT !.cells[c].runState = "Success",
                 !.cells[c].lastRunDuration = r,
                 !.cells[c].statusMessage = message,
                 !.cells[c].outputs = outputs]

resolve(W, r, outputs, message) ==
    LET c == W.executions[r].cell
    IN IF _isLatest(W, r)
       THEN [W EXCEPT !.cells[c].runState = "Success",
                      !.cells[c].lastRunDuration = r,
                      !.cells[c].statusMessage = message,
                      !.cells[c].outputs = outputs]
       ELSE W

reject_KeepOutputs(W, r) ==
    LET c == W.executions[r].cell
    IN IF _isLatest(W, r)
       THEN [W EXCEPT !.cells[c].statusMessage = "Error",
                      !.cells[c].lastRunDuration = 0,
                      !.cells[c].runState = "Error",
                      !.cells[c].outputs = Append(@, ErrorOutput)]
       ELSE W

reject(W, r) ==
    LET c == W.executions[r].cell
    IN IF _isLatest(W, r)
       THEN [W EXCEPT !.cells[c].statusMessage = "Error",
                      !.cells[c].lastRunDuration = 0,
                      !.cells[c].runState = "Error",
                      !.cells[c].outputs = <<ErrorOutput>>]
       ELSE W

\* ------------------------------------------------ IssuesNotebookProvider
cancelCellExecution_Skip(W, exec, c) == W

\* cancelCellExecution(document, cell): its body runs synchronously
cancelCellExecution(W, exec, c) ==
    IF exec[c] # NoExecution THEN cancel(W, exec[c]) ELSE W

\* executeCell(document, cell) up to its first await, on the provider state
\* X = [W, exec (_cellExecutions), pool (_tokenPool), ...]
executeCell(X, c) ==
    LET W1 == cancelCellExecution(X.W, X.exec, c)
        W2 == NewExecution(W1, c, X.pool)
    IN [X EXCEPT !.W = W2,
                 !.pool = nextToken(X.pool),
                 !.exec[c] = Len(X.W.executions) + 1]

\* _doExecuteCell returns or throws: its locals are gone
settle(W, r, pc) ==
    [W EXCEPT !.executions[r].pc = pc,
              !.executions[r].nq = 0, !.executions[r].qi = 0,
              !.executions[r].nreq = 0, !.executions[r].pages = 0,
              !.executions[r].aborted = FALSE]

\* the tail of _doExecuteCell after the fetch: sort, render, execution.resolve
finish(W, r) ==
    LET n == W.executions[r].pages
    IN settle(resolve(W, r, <<RichOutput(n)>>, "results"), r, "resolved")

\* the catch block of _doExecuteCell: execution.reject(err); return
fail(W, r) == settle(reject(W, r), r, "rejected")

\* the for loop over allQueryData moves on: await this.octokit.lib() for the
\* next sub-query, or the loop is over
nextQuery(W, r) ==
    LET e == W.executions[r]
    IN IF e.qi < e.nq
       THEN [W EXCEPT !.executions[r].qi = @ + 1, !.executions[r].pc = "lib"]
       ELSE finish(W, r)

whileLoop_NoCancelCheck(W, r) ==
    [W EXCEPT !.executions[r].pc = "fetch", !.executions[r].nreq = @ + 1]

\* while (!execution.cts.token.isCancellationRequested) { await search(...)
whileLoop(W, r) ==
    IF W.executions[r].cts
    THEN nextQuery(W, r)
    ELSE [W EXCEPT !.executions[r].pc = "fetch", !.executions[r].nreq = @ + 1]

\* --------------------------------------------------------------- observer
\* preRunState: the run state the cell had when the run was constructed;
\* stale: the run was cancelled or superseded when it settled;
\* lostItems: a search request of the run failed after pages had been fetched
NewHistory(pre) == [preRunState |-> pre, stale |-> FALSE, lostItems |-> FALSE]

\* a newer run was constructed for the cell of run r
Superseded(r) ==
    \E r2 \in DOMAIN executions :
        r2 > r /\ executions[r2].cell = executions[r].cell

\* the history after the step that leads to world W
Observe(W) ==
    [r \in DOMAIN history |->
        IF InFlight(executions[r]) /\ ~InFlight(W.executions[r])
        THEN [history[r] EXCEPT
                 !.stale = executions[r].cts \/ Superseded(r),
                 !.lostItems = /\ executions[r].pc = "fetch"
                               /\ W.executions[r].pc = "rejected"
                               /\ executions[r].pages > 0]
        ELSE history[r]]

\* the same, with the history of the runs constructed in the step
ObserveAll(W) ==
    [r \in DOMAIN W.executions |->
        IF r \in DOMAIN history THEN Observe(W)[r]
        ELSE NewHistory(W.executions[r].originalRunState)]

Commit(W, H) ==
    /\ tokens' = W.tokens
    /\ cells' = W.cells
    /\ executions' = W.executions
    /\ history' = H
    /\ UNCHANGED notExecVars

\* ---------------------------------------------------------------- actions
ExecInit ==
    /\ tokenPool = 0
    /\ tokens = [c \in Cells |-> NoToken]
    /\ cellExecutions = [c \in Cells |-> NoExecution]
    /\ cells = [c \in Cells |-> NewCell]
    /\ executions = <<>>
    /\ history = <<>>

\* no aggregation under way
AggIdle ==
    /\ allQueryData = <<>>
    /\ aggPc = "start"
    /\ queryIndex = 0
    /\ page = 0
    /\ count = 0
    /\ allItems = <<>>
    /\ tooLarge = FALSE
    /\ cellOutput = <<>>
    /\ statusMessage = "undefined"
    /\ responseLog = <<>>
    /\ cancelled = FALSE
    /\ totals = <<>>

\* symbols.ts is loaded: let symbols is undefined, fillSymbols was never called
NoNode == [_type |-> "undefined", name |-> "undefined", start |-> 0]
NoCall == [n |-> 0, uri |-> "undefined", query |-> <<>>, failed |-> FALSE,
           before |-> <<>>]
SymInit ==
    /\ symbols = [defined |-> FALSE, _data |-> <<>>]
    /\ symCall = NoCall

\* no document-wide run was started; the cells are runnable code cells
DocIdle ==
    /\ docTokenPool = 0
    /\ docToken = NoToken
    /\ docExecution = NoExecution
    /\ docRunState = "undefined"
    /\ docExecutions = <<>>

\* openNotebook: the metadata the notebook and a cell are created with
NewNotebookMetadata == [cellRunnable |-> FALSE, cellHasExecutionOrder |-> FALSE]
NewCellMetadata(editable) == [editable |-> editable, runnable |-> TRUE]

LockCells == {1, 2}
NoCell == 0              \* the edit is on the notebook, not on a cell

\* a notebook was opened, nothing was locked or unlocked
LockIdle ==
    /\ cellMetadata = [c \in LockCells |-> NewCellMetadata(TRUE)]
    /\ notebookMetadata = NewNotebookMetadata
    /\ edits = <<>>
    /\ editPos = 0

Init ==
    /\ ExecInit /\ AggIdle /\ SymInit /\ DocIdle /\ LockIdle
    /\ cellKinds = [c \in Cells |-> "code"]

\* executeCell(document, cell) up to its first await (openTextDocument)
ExecuteCell(c) ==
    /\ Len(executions) < MaxRuns
    /\ cellKinds[c] = "code"
    /\ LET X == executeCell([W |-> World, exec |-> cellExecutions,
                             pool |-> tokenPool], c)
       IN /\ Commit(X.W, ObserveAll(X.W))
          /\ tokenPool' = X.pool
          /\ cellExecutions' = X.exec

\* openTextDocument settled; queryData and symbols.update ran; the abort
\* listener is registered (it fires at once for a token already cancelled);
\* the for loop is entered
OpenDocDone(r, nq) ==
    /\ r \in DOMAIN executions
    /\ executions[r].pc = "open"
    /\ LET W1 == [World EXCEPT !.executions[r].nq = nq,
                               !.executions[r].aborted = executions[r].cts]
           W2 == nextQuery(W1, r)
       IN Commit(W2, Observe(W2))
    /\ UNCHANGED <<tokenPool, cellExecutions>>

\* openTextDocument, lookupProject, queryData or symbols.update throws: outside
\* the try block, so the exception leaves _doExecuteCell and executeCell
OpenDocFail(r) ==
    /\ r \in DOMAIN executions
    /\ executions[r].pc = "open"
    /\ LET W1 == settle(World, r, "threw")
       IN Commit(W1, Observe(W1))
    /\ UNCHANGED <<tokenPool, cellExecutions>>

\* await this.octokit.lib() settled: page = 1, count = 0, the while loop starts
LibDone(r) ==
    /\ r \in DOMAIN executions
    /\ executions[r].pc = "lib"
    /\ executions[r].cts \/ executions[r].nreq < MaxRequests
    /\ LET W1 == whileLoop(World, r)
       IN Commit(W1, Observe(W1))
    /\ UNCHANGED <<tokenPool, cellExecutions>>

\* await this.octokit.lib() rejected: inside the try block
LibFail(r) ==
    /\ r \in DOMAIN executions
    /\ executions[r].pc = "lib"
    /\ LET W1 == fail(World, r)
       IN Commit(W1, Observe(W1))
    /\ UNCHANGED <<tokenPool, cellExecutions>>

\* a search response arrived and its items were concatenated into allItems;
\* more is the outcome of count < Math.min(1000, total_count), which the
\* response decides.  A response that raced the abort is still delivered.
ResponseOk(r, more) ==
    /\ r \in DOMAIN executions
    /\ executions[r].pc = "fetch"
    /\ (more /\ ~executions[r].cts) => executions[r].nreq < MaxRequests
    /\ LET W1 == [World EXCEPT !.executions[r].pages = @ + 1]
           W2 == IF more THEN whileLoop(W1, r) ELSE nextQuery(W1, r)
       IN Commit(W2, Observe(W2))
    /\ UNCHANGED <<tokenPool, cellExecutions>>

\* the search request rejected (network error, or AbortError after abort())
ResponseFail(r) ==
    /\ r \in DOMAIN executions
    /\ executions[r].pc = "fetch"
    /\ LET W1 == fail(World, r)
       IN Commit(W1, Observe(W1))
    /\ UNCHANGED <<tokenPool, cellExecutions>>

\* the host asks to cancel the cell: cancelCellExecution(document, cell)
CancelCell(c) ==
    /\ cellExecutions[c] # NoExecution
    /\ LET W1 == cancelCellExecution(World, cellExecutions, c)
       IN Commit(W1, Observe(W1))
    /\ UNCHANGED <<tokenPool, cellExecutions>>

\* the listeners d1 / d2 of executeCell: the cell or its text changed while
\* the run was in flight
ListenerCancel(r) ==
    /\ r \in DOMAIN executions
    /\ InFlight(executions[r])
    /\ LET W1 == cancel(World, r)
       IN Commit(W1, Observe(W1))
    /\ UNCHANGED <<tokenPool, cellExecutions>>

\* the host cleared the outputs of the cell: onDidChangeCellOutputs handler
ClearOutputs(c) ==
    /\ cells[c].outputs # <<>>
    /\ cells' = [cells EXCEPT ![c].outputs = <<>>,
                              ![c].statusMessage = "undefined",
                              ![c].lastRunDuration = 0,
                              ![c].runState = "Idle"]
    /\ UNCHANGED <<tokenPool, tokens, cellExecutions, executions, history>>
    /\ UNCHANGED notExecVars

Next ==
    \/ \E c \in DOMAIN cells : ExecuteCell(c)
    \/ \E r \in 1..MaxRuns, nq \in 0..MaxQueries : OpenDocDone(r, nq)
    \/ \E r \in 1..MaxRuns : OpenDocFail(r)
    \/ \E r \in 1..MaxRuns : LibDone(r)
    \/ \E r \in 1..MaxRuns : LibFail(r)
    \/ \E r \in 1..MaxRuns, more \in BOOLEAN : ResponseOk(r, more)
    \/ \E r \in 1..MaxRuns : ResponseFail(r)
    \/ \E c \in DOMAIN cells : CancelCell(c)
    \/ \E r \in 1..MaxRuns : ListenerCancel(r)
    \/ \E c \in DOMAIN cells : ClearOutputs(c)

Spec == Init /\ [][Next]_vars

\* ------------------------------------------------------------------ items
\* Search result items; created_at / updated_at are ISO dates <<y, m, d>>.
ItemA == [url |-> "a", created_at |-> <<2023, 1, 1>>,
          updated_at |-> <<2023, 3, 1>>, comments |-> 1]
ItemB == [url |-> "b", created_at |-> <<2023, 2, 1>>,
          updated_at |-> <<2023, 2, 2>>, comments |-> 1]
ItemC == [url |-> "c", created_at |-> <<2023, 1, 15>>,
          updated_at |-> <<2023, 3, 1>>, comments |-> 0]
Items == {ItemA, ItemB, ItemC}

\* sort fields a sub-query may declare ("none": no sort directive)
SortFields == {"none", "created", "comments", "updated"}
Orders == {"asc", "desc"}

\* total_count values a response may report
TotalCounts == (0..AggMaxItems) \cup {ResultCap + 1}

SeqsUpTo(S, n) == UNION {[1..k -> S] : k \in 0..n}

\* the allQueryData of a run: up to AggMaxQueries sub-queries with any sort
\* fields and one order (_doExecuteCell reads order only to hand it to the
\* search request)
QueryLists ==
    {[i \in DOMAIN sorts |-> [sort |-> sorts[i], order |-> order]] :
        sorts \in SeqsUpTo(SortFields, AggMaxQueries), order \in Orders}

Min(a, b) == IF a <= b THEN a ELSE b

\* ------------------------------------------------------------------- cmp
\* Date.parse of an ISO date, in days from 1970-01-01 UTC (Date.parse counts
\* the same instant in milliseconds, 86 400 000 to the day, which is beyond
\* the integers of the model checker; the sign of a difference is the same)
DateParse(d) ==
    LET y == IF d[2] <= 2 THEN d[1] - 1 ELSE d[1]
        era == y \div 400
        yoe == y - era * 400
        mp == IF d[2] > 2 THEN d[2] - 3 ELSE d[2] + 9
        doy == (153 * mp + 2) \div 5 + d[3] - 1
        doe == yoe * 365 + yoe \div 4 - yoe \div 100 + doy
    IN era * 146097 + doe - 719468

compareByComments(a, b) == a.comments - b.comments
compareByCreated(a, b) == DateParse(a.created_at) - DateParse(b.created_at)
compareByUpdated(a, b) == DateParse(a.updated_at) - DateParse(b.updated_at)

\* cmp.byName: the names that have a comparator
byName == {"comments", "created", "updated"}

\* a comparator value: the function byName holds, possibly wrapped by invert
NoComparator == [name |-> "none", inverted |-> FALSE]
invert(comparator) == [comparator EXCEPT !.inverted = ~@]

Compare(comparator, a, b) ==
    LET v == CASE comparator.name = "comments" -> compareByComments(a, b)
               [] comparator.name = "created" -> compareByCreated(a, b)
               [] comparator.name = "updated" -> compareByUpdated(a, b)
    IN IF comparator.inverted THEN v * (0 - 1) ELSE v

\* Array.prototype.sort with a comparator: a stable sort
RECURSIVE Insert(_, _, _)
Insert(sorted, x, comparator) ==
    IF sorted = <<>> THEN <<x>>
    ELSE IF Compare(comparator, sorted[Len(sorted)], x) <= 0
         THEN Append(sorted, x)
         ELSE Append(Insert(SubSeq(sorted, 1, Len(sorted) - 1), x, comparator),
                     sorted[Len(sorted)])

RECURSIVE Sort(_, _)
Sort(items, comparator) ==
    IF items = <<>> THEN <<>>
    ELSE Insert(Sort(SubSeq(items, 1, Len(items) - 1), comparator),
                items[Len(items)], comparator)

\* ------------------------------------------- _doExecuteCell, the data path
comparatorFor_Some(queries) ==
    IF /\ Len(queries) >= 2
       /\ \E i \in 2..Len(queries) : queries[i].sort = queries[1].sort
       /\ queries[1].sort \in byName
    THEN [name |-> queries[1].sort, inverted |-> FALSE]
    ELSE NoComparator

\* const comparator = allQueryData.length >= 2 && every(...) && byName.get(...)
comparatorFor(queries) ==
    IF /\ Len(queries) >= 2
       /\ \A i \in 1..Len(queries) : queries[i].sort = queries[1].sort
       /\ queries[1].sort \in byName
    THEN [name |-> queries[1].sort, inverted |-> FALSE]
    ELSE NoComparator

\* if (comparator) allItems.sort(first.sort === 'asc' ? invert(c) : c)
sortItems(queries, items) ==
    LET comparator == comparatorFor(queries)
    IN IF comparator # NoComparator
       THEN Sort(items, IF queries[1].sort = "asc"
                        THEN invert(comparator) ELSE comparator)
       ELSE items

RECURSIVE renderFrom_KeepLast(_, _)
renderFrom_KeepLast(items, seen) ==
    IF items = <<>> THEN <<>>
    ELSE LET rest == SubSeq(items, 1, Len(items) - 1)
             x == items[Len(items)]
         IN IF x.url \in seen
            THEN renderFrom_KeepLast(rest, seen)
            ELSE Append(renderFrom_KeepLast(rest, seen \cup {x.url}), x)

renderFrom_All(items, seen) == items

\* the render loop: the items that reach md / html, with the set seen so far;
\* the loop continues past the items whose url is in seen, up to the first
\* item it renders
RECURSIVE renderFrom(_, _)
renderFrom(items, seen) ==
    LET fresh == {i \in DOMAIN items : items[i].url \notin seen}
    IN IF fresh = {} THEN <<>>
       ELSE LET i == CHOOSE k \in fresh : \A j \in fresh : k <= j
            IN <<items[i]>>
               \o renderFrom(SubSeq(items, i + 1, Len(items)),
                             seen \cup {items[i].url})

\* sort, render and execution.resolve; the run is the latest unless it has
\* been cancelled, and resolve() commits for the latest run only
AggFinish(items, large) ==
    LET sorted == sortItems(allQueryData, items)
        rendered == renderFrom(sorted, {})
    IN /\ aggPc' = "resolved"
       /\ allItems' = sorted
       /\ tooLarge' = large
       /\ IF cancelled
          THEN UNCHANGED <<cellOutput, statusMessage>>
          ELSE /\ cellOutput' = <<[outputKind |-> "Rich", rendered |-> rendered,
                                   raw |-> sorted]>>
               /\ statusMessage' = [count |-> Len(rendered), plus |-> large]
       /\ UNCHANGED <<queryIndex, page, count>>

\* the for loop moves to the next sub-query and issues its first request;
\* once cancellation is requested the while loop of every remaining sub-query
\* is skipped
AggNextQuery(items, large) ==
    IF queryIndex < Len(allQueryData) /\ ~cancelled
    THEN /\ queryIndex' = queryIndex + 1
         /\ page' = 1
         /\ count' = 0
         /\ aggPc' = "fetch"
         /\ allItems' = items
         /\ tooLarge' = large
         /\ UNCHANGED <<cellOutput, statusMessage>>
    ELSE AggFinish(items, large)

AggInit ==
    /\ ExecInit
    /\ SymInit
    /\ DocIdle
    /\ LockIdle
    /\ cellKinds = [c \in Cells |-> "code"]
    /\ allQueryData \in QueryLists
    /\ aggPc = "start"
    /\ queryIndex = 0
    /\ page = 0
    /\ count = 0
    /\ allItems = <<>>
    /\ tooLarge = FALSE
    /\ cellOutput = <<>>
    /\ statusMessage = "undefined"
    /\ responseLog = <<>>
    /\ cancelled = FALSE
    /\ totals = <<>>

\* _doExecuteCell up to the first search request
AggStart ==
    /\ aggPc = "start"
    /\ AggNextQuery(<<>>, FALSE)
    /\ UNCHANGED <<allQueryData, responseLog, cancelled, totals>>
    /\ UNCHANGED notAggVars

AggAccumulate_Prepend(items, got) == got \o items

\* allItems = allItems.concat(response.data.items)
AggAccumulate(items, got) == items \o got

loopDone_Strict(n, total) == n > Min(ResultCap, total)

\* if (count >= Math.min(1000, response.data.total_count)) { break; }
loopDone(n, total) == n >= Min(ResultCap, total)

nextPage_Skip(p) == p + 2

\* page += 1
nextPage(p) == p + 1

\* a search response: response.data.items = got, response.data.total_count = total
AggResponseOk(got, total) ==
    /\ aggPc = "fetch"
    /\ responseLog' = Append(responseLog,
                             [query |-> queryIndex, page |-> page, items |-> got])
    /\ LET n == count + Len(got)
           items == AggAccumulate(allItems, got)
           large == tooLarge \/ total > ResultCap
       IN IF loopDone(n, total) \/ cancelled
          THEN AggNextQuery(items, large)
          ELSE /\ count' = n
               /\ allItems' = items
               /\ tooLarge' = large
               /\ page' = nextPage(page)
               /\ UNCHANGED <<aggPc, queryIndex, cellOutput, statusMessage>>
    /\ UNCHANGED <<allQueryData, cancelled>>
    /\ UNCHANGED notAggVars

\* a search request rejects: execution.reject(err); return.  reject() commits
\* for the latest run only
AggResponseFail ==
    /\ aggPc = "fetch"
    /\ aggPc' = "rejected"
    /\ IF cancelled
       THEN UNCHANGED <<cellOutput, statusMessage>>
       ELSE /\ cellOutput' = <<ErrorOutput>>
            /\ statusMessage' = "Error"
    /\ UNCHANGED <<allQueryData, queryIndex, page, count, allItems, tooLarge,
                   responseLog, cancelled, totals>>
    /\ UNCHANGED notAggVars

\* AggSpec: the responses stay within AggMaxRequests and AggMaxItems
AggNext ==
    \/ AggStart
    \/ \E got \in SeqsUpTo(Items, AggMaxItems), total \in TotalCounts :
          /\ Len(responseLog) < AggMaxRequests
          /\ Len(allItems) + Len(got) <= AggMaxItems
          /\ AggResponseOk(got, total)
          /\ UNCHANGED totals
    \/ AggResponseFail

AggSpec == AggInit /\ [][AggNext]_vars

\* ------------------------------------------------------------- PageSpec
\* cancel() of the run: cts.cancel()
AggCancel ==
    /\ aggPc \in {"start", "fetch"}
    /\ ~cancelled
    /\ cancelled' = TRUE
    /\ UNCHANGED <<allQueryData, aggPc, queryIndex, page, count, allItems,
                   tooLarge, cellOutput, statusMessage, responseLog, totals>>
    /\ UNCHANGED notAggVars

\* PageSpec: sub-queries without a sort directive
PageQueryLists ==
    {[i \in 1..k |-> [sort |-> "none", order |-> "desc"]] : k \in 0..PageMaxQueries}

\* a short page, and the full page of PerPage items
ShortPages == {<<>>, <<ItemA>>, <<ItemA, ItemB>>}
FullPage == [i \in 1..PerPage |-> ItemA]
PageTotals == {0, 2, ResultCap + 1}

\* the short pages received so far
ShortReceived ==
    Cardinality({i \in DOMAIN responseLog : Len(responseLog[i].items) < PerPage})

PageInit ==
    /\ ExecInit
    /\ SymInit
    /\ DocIdle
    /\ LockIdle
    /\ cellKinds = [c \in Cells |-> "code"]
    /\ allQueryData \in PageQueryLists
    /\ aggPc = "start"
    /\ queryIndex = 0
    /\ page = 0
    /\ count = 0
    /\ allItems = <<>>
    /\ tooLarge = FALSE
    /\ cellOutput = <<>>
    /\ statusMessage = "undefined"
    /\ responseLog = <<>>
    /\ cancelled = FALSE
    /\ totals = <<>>

\* the responses of PageSpec: at most PageMaxRequests short pages with any
\* total, and full pages of a result set of more than ResultCap items for the
\* first sub-query as long as it has received full pages only
PageNext ==
    \/ AggStart
    \/ \E got \in ShortPages, total \in PageTotals :
          /\ ShortReceived < PageMaxRequests
          /\ AggResponseOk(got, total)
          /\ totals' = Append(totals, total)
    \/ /\ queryIndex = 1
       /\ count = PerPage * (page - 1)
       /\ AggResponseOk(FullPage, ResultCap + 1)
       /\ totals' = Append(totals, ResultCap + 1)
    \/ AggResponseFail
    \/ AggCancel

PageSpec == PageInit /\ [][PageNext]_vars

\* ------------------------------------------------------------ symbols.ts
\* type Value = ValueType | Set<string>[]
Typed(t) == [type |-> t, sets |-> <<>>]
OneOf(sets) == [type |-> "Set", sets |-> sets]
NoValue == [type |-> "undefined", sets |-> <<>>]

\* const qualifiers = new Map<string, Value>([...]), in insertion order
qualifiers ==
    << [name |-> "type", value |-> OneOf(<<{"pr", "issue"}>>)],
       [name |-> "updated", value |-> Typed("Date")],
       [name |-> "in", value |-> OneOf(<<{"title", "body", "comments"}>>)],
       [name |-> "org", value |-> Typed("Orgname")],
       [name |-> "repo", value |-> Typed("Repository")],
       [name |-> "user", value |-> Typed("Username")],
       [name |-> "state", value |-> OneOf(<<{"open", "closed"}>>)],
       [name |-> "assignee", value |-> Typed("Username")],
       [name |-> "author", value |-> Typed("Username")],
       [name |-> "mentions", value |-> Typed("Username")],
       [name |-> "team", value |-> Typed("Teamname")],
       [name |-> "commenter", value |-> Typed("Username")],
       [name |-> "involves", value |-> Typed("Username")],
       [name |-> "label", value |-> Typed("Label")],
       [name |-> "linked", value |-> OneOf(<<{"pr", "issue"}>>)],
       [name |-> "milestone", value |-> Typed("Milestone")],
       [name |-> "project", value |-> Typed("ProjectBoard")],
       [name |-> "language", value |-> Typed("Language")],
       [name |-> "comments", value |-> Typed("Number")],
       [name |-> "interactions", value |-> Typed("Number")],
       [name |-> "reactions", value |-> Typed("Number")],
       [name |-> "created", value |-> Typed("Date")],
       [name |-> "closed", value |-> Typed("Date")],
       [name |-> "archived", value |-> OneOf(<<{"true", "false"}>>)],
       [name |-> "is", value |-> OneOf(<<{"locked", "unlocked"},
                                          {"merged", "unmerged"},
                                          {"public", "private"},
                                          {"open", "closed"},
                                          {"pr", "issue"}>>)],
       [name |-> "no", value |-> OneOf(<<{"label", "milestone", "assignee",
                                          "project"}>>)],
       [name |-> "status", value |-> OneOf(<<{"pending", "success", "failure"}>>)],
       [name |-> "base", value |-> Typed("BaseBranch")],
       [name |-> "head", value |-> Typed("HeadBranch")],
       [name |-> "draft", value |-> OneOf(<<{"true", "false"}>>)],
       [name |-> "review-requested", value |-> Typed("Username")],
       [name |-> "review", value |-> OneOf(<<{"none", "required", "approved"}>>)],
       [name |-> "reviewed-by", value |-> Typed("Username")],
       [name |-> "team-review-requested", value |-> Typed("Teamname")],
       [name |-> "merged", value |-> Typed("Date")] >>

\* interface SymbolInfo { name; uri?; def?; value? }
SymbolInfo(name, uri, def, value) ==
    [name |-> name, uri |-> uri, def |-> def, value |-> value]
NoSymbolInfo == SymbolInfo("undefined", "undefined", NoNode, NoValue)

\* new SymbolTable(): _data holds one entry per qualifier ("given variables")
NewSymbolTable ==
    [i \in DOMAIN qualifiers |->
        SymbolInfo(qualifiers[i].name, "undefined", NoNode, qualifiers[i].value)]

add_ByName(data, info) ==
    SelectSeq(data, LAMBDA e : e.name # info.name) \o <<info>>

\* add(info): every info is a fresh object, so the Set appends it
add(data, info) == Append(data, info)

RECURSIVE getAll(_, _)
getAll_First(data, name) ==
    IF data = <<>> THEN <<>>
    ELSE IF data[1].name = name THEN <<data[1]>>
         ELSE getAll(Tail(data), name)

\* *getAll(name): the entries with that name, in the order of the Set
getAll(data, name) ==
    IF data = <<>> THEN <<>>
    ELSE IF data[1].name = name
         THEN <<data[1]>> \o getAll(Tail(data), name)
         ELSE getAll(Tail(data), name)

\* get(name): the first entry of the Set with that name, or undefined
RECURSIVE get(_, _)
get(data, name) ==
    IF data = <<>> THEN NoSymbolInfo
    ELSE IF data[1].name = name THEN data[1] ELSE get(Tail(data), name)

\* if (!symbols) { symbols = new SymbolTable(); }
ensureTable_Reseed(S) == S._data \o NewSymbolTable

ensureTable(S) == IF S.defined THEN S._data ELSE NewSymbolTable

\* Utils.walk(query, callback) with the callback of fillSymbols, over the
\* nodes of the tree in the order the walk visits them
RECURSIVE walk(_, _, _)
walk(data, nodes, uri) ==
    IF nodes = <<>> THEN data
    ELSE LET node == nodes[1]
         IN walk(IF node._type = "VariableDefinition"
                 THEN add(data, SymbolInfo(node.name, uri, node, NoValue))
                 ELSE data,
                 Tail(nodes), uri)

\* the nodes of a parsed document in walk order: the QueryDocument node, then
\* per statement a VariableDefinition (of the variable named) or a Query
Statements == {"$a", "$b", "query"}
NodeOf(stmt, i) ==
    IF stmt = "query"
    THEN [_type |-> "Query", name |-> "undefined", start |-> i]
    ELSE [_type |-> "VariableDefinition", name |-> stmt, start |-> i]
TreeOf(stmts) ==
    <<[_type |-> "QueryDocument", name |-> "undefined", start |-> 0]>>
    \o [i \in DOMAIN stmts |-> NodeOf(stmts[i], i)]
Trees ==
    {TreeOf(stmts) : stmts \in {<<>>, <<"$a">>, <<"query", "$b">>,
                                 <<"$a", "$b">>, <<"$a", "$a">>}}
Uris == {"u1", "u2"}

\* fillSymbols(query, uri) runs to its return
FillSymbols(query, uri) ==
    /\ symCall.n < SymMaxCalls
    /\ symbols' = [defined |-> TRUE,
                   _data |-> walk(ensureTable(symbols), query, uri)]
    /\ symCall' = [n |-> symCall.n + 1, uri |-> uri, query |-> query,
                   failed |-> FALSE, before |-> symbols._data]
    /\ UNCHANGED notSymVars

\* fillSymbols(query, uri) is left by an exception the walk raises after it
\* has visited k nodes of the tree
FillSymbolsThrows(query, uri, k) ==
    /\ symCall.n < SymMaxCalls
    /\ k < Len(query)
    /\ symbols' = [defined |-> TRUE,
                   _data |-> walk(ensureTable(symbols), SubSeq(query, 1, k), uri)]
    /\ symCall' = [n |-> symCall.n + 1, uri |-> uri, query |-> query,
                   failed |-> TRUE, before |-> symbols._data]
    /\ UNCHANGED notSymVars

SymNext ==
    \/ \E query \in Trees, uri \in Uris : FillSymbols(query, uri)
    \/ \E query \in Trees, uri \in Uris, k \in 0..2 :
          FillSymbolsThrows(query, uri, k)

SymSpec == Init /\ [][SymNext]_vars

\* -------------------------------------------- NotebookDocumentExecution
\* The provider state the document-wide operations read and write.
Provider ==
    [W |-> World, exec |-> cellExecutions, pool |-> tokenPool,
     docPool |-> docTokenPool, docToken |-> docToken,
     docExecution |-> docExecution, docRunState |-> docRunState,
     docs |-> docExecutions]

Last(s) == s[Len(s)]

\* pc of a document run: "await" while executeAllCells awaits executeCell,
\* "done" after its finally block ran, "threw" if an exception left it;
\* currentCell is the local of executeAllCells, runs are the cell runs its
\* executeCell calls constructed (an observer's record)
doc_isLatest(X, d) == X.docToken = X.docs[d].token

\* new NotebookDocumentExecution(document), then _documentExecutions.set
NewDocExecution(X) ==
    LET e == [token |-> X.docPool, originalRunState |-> X.docRunState,
              cts |-> FALSE, pc |-> "await", currentCell |-> 0, runs |-> <<>>]
    IN [X EXCEPT !.docPool = @ + 1,
                 !.docToken = X.docPool,
                 !.docRunState = "Running",
                 !.docs = Append(@, e),
                 !.docExecution = Len(X.docs) + 1]

\* cancel() of a document run: cts.cancel() runs the listener executeAllCells
\* registered (cancelCellExecution(document, currentCell)) unless the source
\* has been disposed; then the run state is restored and the token deleted
doc_cancel(X, d) ==
    IF doc_isLatest(X, d)
    THEN LET e == X.docs[d]
             W1 == IF e.pc = "await"
                   THEN cancelCellExecution(X.W, X.exec, e.currentCell)
                   ELSE X.W
         IN [X EXCEPT !.docs[d].cts = TRUE,
                      !.W = W1,
                      !.docRunState = e.originalRunState,
                      !.docToken = NoToken]
    ELSE X

doc_resolve_Unguarded(X, d) == [X EXCEPT !.docRunState = "Idle"]

\* resolve() of a document run
doc_resolve(X, d) ==
    IF doc_isLatest(X, d) THEN [X EXCEPT !.docRunState = "Idle"] ELSE X

\* cancelAllCellsExecution(document)
cancelAllCellsExecution(X) ==
    IF X.docExecution # NoExecution THEN doc_cancel(X, X.docExecution) ELSE X

\* finally { execution.resolve(); execution.dispose(); }
doc_finally(X, d, pc) == [doc_resolve(X, d) EXCEPT !.docs[d].pc = pc]

\* the for loop of executeAllCells from cell `from` on: the next runnable code
\* cell becomes currentCell and executeCell is called and awaited; without
\* such a cell the loop ends
forLoop(X, d, from) ==
    LET runnable == {c \in DOMAIN cellKinds : c >= from /\ cellKinds[c] = "code"}
    IN IF runnable = {}
       THEN doc_finally(X, d, "done")
       ELSE LET c == CHOOSE c \in runnable : \A c2 \in runnable : c <= c2
                X1 == executeCell(X, c)
            IN [X1 EXCEPT !.docs[d].currentCell = c,
                          !.docs[d].runs = Append(@, Len(X1.W.executions))]

shouldBreak_Never(e) == FALSE

\* if (execution.cts.token.isCancellationRequested) { break; }
shouldBreak(e) == e.cts

\* the continuation of executeAllCells after await this.executeCell(...):
\* an exception of executeCell leaves the loop through the finally block
resume(X, d) ==
    LET e == X.docs[d]
    IN IF X.W.executions[Last(e.runs)].pc = "threw"
       THEN doc_finally(X, d, "threw")
       ELSE IF shouldBreak(e)
            THEN doc_finally(X, d, "done")
            ELSE forLoop(X, d, e.currentCell + 1)

DocCommit(X) ==
    /\ tokens' = X.W.tokens
    /\ cells' = X.W.cells
    /\ executions' = X.W.executions
    /\ history' = ObserveAll(X.W)
    /\ tokenPool' = X.pool
    /\ cellExecutions' = X.exec
    /\ docTokenPool' = X.docPool
    /\ docToken' = X.docToken
    /\ docExecution' = X.docExecution
    /\ docRunState' = X.docRunState
    /\ docExecutions' = X.docs
    /\ UNCHANGED cellKinds
    /\ UNCHANGED notDocVars

\* the documents of DocSpec: three cells, with cells that are skipped before,
\* between and after the runnable code cells, or no runnable code cell at all
DocCells == {1, 2, 3}
Documents ==
    { <<"code", "markdown", "code">>, <<"locked", "code", "code">>,
      <<"code", "code", "locked">>, <<"markdown", "locked", "markdown">> }

DocInit ==
    /\ tokenPool = 0
    /\ tokens = [c \in DocCells |-> NoToken]
    /\ cellExecutions = [c \in DocCells |-> NoExecution]
    /\ cells = [c \in DocCells |-> NewCell]
    /\ executions = <<>>
    /\ history = <<>>
    /\ AggIdle /\ SymInit /\ DocIdle /\ LockIdle
    /\ cellKinds \in Documents

\* executeAllCells(document) up to its first await, or to its end when the
\* document has no runnable code cell
ExecuteAllCells ==
    /\ Len(docExecutions) < MaxDocRuns
    /\ LET d == Len(docExecutions) + 1
           X == forLoop(NewDocExecution(cancelAllCellsExecution(Provider)), d, 1)
       IN /\ Len(X.W.executions) <= MaxRuns
          /\ DocCommit(X)

\* the host asks to cancel the document run: cancelAllCellsExecution(document)
CancelAllCells ==
    /\ docExecution # NoExecution
    /\ DocCommit(cancelAllCellsExecution(Provider))

\* the executeCell a document run awaits has settled
Resumable(d) ==
    /\ d \in DOMAIN docExecutions
    /\ docExecutions[d].pc = "await"
    /\ ~InFlight(executions[Last(docExecutions[d].runs)])

\* executeAllCells continues after its await
DocResume(d) ==
    /\ Resumable(d)
    /\ LET X == resume(Provider, d)
       IN /\ Len(X.W.executions) <= MaxRuns
          /\ DocCommit(X)

\* The continuation of an await is a microtask: it runs before the host
\* delivers another event or response.
Pending == \E d \in 1..MaxDocRuns : Resumable(d)

\* DocSpec: the cells hold at most one sub-query, answered by a single page
DocQueryCounts == {0, 1}

DocNext ==
    \/ \E d \in 1..MaxDocRuns : DocResume(d)
    \/ ~Pending /\ ExecuteAllCells
    \/ ~Pending /\ CancelAllCells
    \/ ~Pending /\ \E c \in DOMAIN cells : ExecuteCell(c)
    \/ ~Pending /\ \E r \in 1..MaxRuns, nq \in DocQueryCounts : OpenDocDone(r, nq)
    \/ ~Pending /\ \E r \in 1..MaxRuns : OpenDocFail(r)
    \/ ~Pending /\ \E r \in 1..MaxRuns : LibDone(r)
    \/ ~Pending /\ \E r \in 1..MaxRuns : ResponseOk(r, FALSE)
    \/ ~Pending /\ \E r \in 1..MaxRuns : ResponseFail(r)
    \/ ~Pending /\ \E c \in DOMAIN cells : CancelCell(c)

DocSpec == DocInit /\ [][DocNext]_vars

\* ------------------------------------------------------------ lock state
\* setCellLockState and setDocumentLockState with the host's undo stack: the
\* host keeps the { undo, redo } pairs it is handed and calls undo of the
\* last applied one, or redo of the last undone one.
\* { ...m, k: v, ... }
Spread(m, over) ==
    [k \in DOMAIN m \cup DOMAIN over |-> IF k \in DOMAIN over THEN over[k] ELSE m[k]]

\* the closures of setCellLockState, applied to the metadata they read
setCellLockState_redo(m, locked) == Spread(m, [editable |-> ~locked])
setCellLockState_undo(m, locked) == Spread(m, [editable |-> locked])

\* the closures of setDocumentLockState
setDocumentLockState_redo(m, locked) ==
    Spread(m, [editable |-> ~locked, cellEditable |-> ~locked])
setDocumentLockState_undo(m, locked) ==
    Spread(m, [editable |-> ~locked, cellEditable |-> ~locked])

\* the event fired on _onDidChangeNotebook; "before" is an observer field
NewEdit(c, locked, before) == [cell |-> c, locked |-> locked, before |-> before]
Fire(e) ==
    /\ edits' = SubSeq(edits, 1, editPos) \o <<e>>
    /\ editPos' = editPos + 1

SetCellLockState(c, locked) ==
    /\ editPos < MaxEdits
    /\ cellMetadata' = [cellMetadata EXCEPT ![c] = setCellLockState_redo(@, locked)]
    /\ Fire(NewEdit(c, locked, cellMetadata[c]))
    /\ UNCHANGED notebookMetadata
    /\ UNCHANGED notLockVars

SetDocumentLockState(locked) ==
    /\ editPos < MaxEdits
    /\ notebookMetadata' = setDocumentLockState_redo(notebookMetadata, locked)
    /\ Fire(NewEdit(NoCell, locked, notebookMetadata))
    /\ UNCHANGED cellMetadata
    /\ UNCHANGED notLockVars

\* the host calls undo of the last applied edit
HostUndo ==
    /\ editPos > 0
    /\ LET e == edits[editPos] IN
       IF e.cell = NoCell
       THEN /\ notebookMetadata' = setDocumentLockState_undo(notebookMetadata, e.locked)
            /\ UNCHANGED cellMetadata
       ELSE /\ cellMetadata' = [cellMetadata EXCEPT
                                   ![e.cell] = setCellLockState_undo(@, e.locked)]
            /\ UNCHANGED notebookMetadata
    /\ editPos' = editPos - 1
    /\ UNCHANGED edits
    /\ UNCHANGED notLockVars

\* the host calls redo of the last undone edit
HostRedo ==
    /\ editPos < Len(edits)
    /\ LET e == edits[editPos + 1] IN
       IF e.cell = NoCell
       THEN /\ notebookMetadata' = setDocumentLockState_redo(notebookMetadata, e.locked)
            /\ UNCHANGED cellMetadata
       ELSE /\ cellMetadata' = [cellMetadata EXCEPT
                                   ![e.cell] = setCellLockState_redo(@, e.locked)]
            /\ UNCHANGED notebookMetadata
    /\ editPos' = editPos + 1
    /\ UNCHANGED edits
    /\ UNCHANGED notLockVars

\* the cells come from the file with editable true or false
LockInit ==
    /\ ExecInit /\ AggIdle /\ SymInit /\ DocIdle
    /\ cellKinds = [c \in Cells |-> "code"]
    /\ cellMetadata \in [LockCells -> {NewCellMetadata(b) : b \in BOOLEAN}]
    /\ notebookMetadata = NewNotebookMetadata
    /\ edits = <<>>
    /\ editPos = 0

LockNext ==
    \/ \E c \in LockCells, locked \in BOOLEAN : SetCellLockState(c, locked)
    \/ \E locked \in BOOLEAN : SetDocumentLockState(locked)
    \/ HostUndo
    \/ HostRedo

LockSpec == LockInit /\ [][LockNext]_vars

\* ------------------------------------------------------------ cell runs
CellOf(r) == executions[r].cell

\* run r issues a search request in this step
Issues(r) ==
    /\ executions'[r].pc = "fetch"
    /\ executions'[r].nreq = executions[r].nreq + 1

\* C1: once a run has been cancelled, or a newer run has been started for its
\* cell, the step in which the older run reaches resolve() or reject() leaves
\* the cell's run state, outputs, status message and last-run duration as
\* they were.
C1_StaleRunCommitsNothing ==
    [][\A r \in DOMAIN executions :
          ( /\ executions[r].cts \/ Superseded(r)
            /\ InFlight(executions[r])
            /\ executions'[r].pc \in {"resolved", "rejected"} )
          => cells'[CellOf(r)] = cells[CellOf(r)]]_vars

\* a run reached resolve() when it was stale, while the newer run of the same
\* cell is fetching
C1_Witness ==
    \E r \in DOMAIN executions, r2 \in DOMAIN executions :
        /\ r2 > r /\ executions[r2].cell = CellOf(r)
        /\ executions[r].pc = "resolved" /\ history[r].stale
        /\ executions[r2].pc = "fetch" /\ ~executions[r2].cts
        /\ cells[CellOf(r)].runState = "Running"

Issuers(c) ==
    {r \in DOMAIN executions :
        CellOf(r) = c /\ InFlight(executions[r]) /\ ~executions[r].cts}

\* C3: the step of executeCell that constructs a new run leaves every run of
\* that cell that was in flight with its cancellation signal fired and its
\* token no longer the cell's token, and the new run has issued no request
\* yet; at any time at most one uncancelled run per cell is in flight.
C3_RerunCancelsPrevious ==
    /\ [](\A c \in DOMAIN cells : Cardinality(Issuers(c)) <= 1)
    /\ [][\A r \in DOMAIN executions :
             ( /\ Len(executions') > Len(executions)
               /\ executions'[Len(executions')].cell = CellOf(r)
               /\ InFlight(executions[r]) )
             => /\ executions'[r].cts
                /\ tokens'[CellOf(r)] # executions[r].token
                /\ executions'[Len(executions')].nreq = 0]_vars

\* a run, cancelled with its request in flight, next to the newer run of the
\* same cell that has been registered and has not yet issued a request
C3_Witness ==
    \E r \in DOMAIN executions, r2 \in DOMAIN executions :
        /\ r2 > r /\ executions[r2].cell = CellOf(r)
        /\ executions[r].pc = "fetch" /\ executions[r].cts
        /\ executions[r].aborted
        /\ cellExecutions[CellOf(r)] = r2
        /\ executions[r2].pc = "open" /\ executions[r2].nreq = 0

\* C4: a run whose cancellation signal has fired has its abort signal set
\* while it is inside the fetch block, never issues another search request,
\* and once inside the fetch block never leaves executeCell by an exception.
C4_CancelHaltsPaging ==
    /\ [](\A r \in DOMAIN executions :
            (executions[r].cts /\ executions[r].pc \in {"lib", "fetch"})
            => executions[r].aborted)
    /\ [][\A r \in DOMAIN executions :
             executions[r].cts
             => /\ ~Issues(r)
                /\ executions[r].aborted => executions'[r].pc # "threw"]_vars

\* a cancelled run of two sub-queries has issued a single request, received
\* its response and moved on to its second sub-query
C4_Witness ==
    \E r \in DOMAIN executions :
        /\ executions[r].cts /\ executions[r].aborted
        /\ executions[r].pc = "lib"
        /\ executions[r].nq = 2 /\ executions[r].qi = 2
        /\ executions[r].nreq = 1 /\ executions[r].pages = 1

\* C5: when a search request of the newest, uncancelled run of a cell fails,
\* that step issues no request, sets the cell's run state to Error and its
\* outputs to the single error output; a rejected run never issues a request.
C5_FailureIsTerminalError ==
    [][\A r \in DOMAIN executions :
          /\ ( /\ executions[r].pc = "fetch" /\ executions'[r].pc = "rejected"
               /\ ~executions[r].cts /\ ~Superseded(r) )
             => /\ cells'[CellOf(r)].runState = "Error"
                /\ cells'[CellOf(r)].outputs = <<ErrorOutput>>
          /\ executions[r].pc = "rejected"
             => executions'[r].pc = "rejected"]_vars

\* a run that had fetched a page failed when it was neither cancelled nor
\* superseded: the cell shows the error output alone
C5_Witness ==
    \E r \in DOMAIN executions :
        /\ executions[r].pc = "rejected" /\ ~executions[r].cts
        /\ history[r].lostItems /\ ~history[r].stale
        /\ cells[CellOf(r)].runState = "Error"
        /\ cells[CellOf(r)].outputs = <<ErrorOutput>>

\* ----------------------------------------------------------- aggregation
\* the item list and the rendered list a resolved run committed
Raw == cellOutput[1].raw
Rendered == cellOutput[1].rendered

RECURSIVE FlattenLog(_)
FlattenLog(log) ==
    IF log = <<>> THEN <<>>
    ELSE FlattenLog(SubSeq(log, 1, Len(log) - 1)) \o log[Len(log)].items

\* what the responses delivered, in arrival order
Fetched == FlattenLog(responseLog)

Reverse(s) == [i \in 1..Len(s) |-> s[Len(s) + 1 - i]]

\* at least two sub-queries, all declaring the same sort field
AllShareSort ==
    /\ Len(allQueryData) >= 2
    /\ \A i \in DOMAIN allQueryData : allQueryData[i].sort = allQueryData[1].sort

AllOrder(order) == \A i \in DOMAIN allQueryData : allQueryData[i].order = order

\* C6: when two or more sub-queries all declare sort field created with order
\* desc, the committed item list is ordered newest first.
C6_CreatedDescNewestFirst ==
    ( /\ aggPc = "resolved"
      /\ AllShareSort /\ allQueryData[1].sort = "created" /\ AllOrder("desc") )
    => \A i \in DOMAIN Raw, j \in DOMAIN Raw :
          i < j => DateParse(Raw[i].created_at) >= DateParse(Raw[j].created_at)

FlipOrder(queries) ==
    [i \in DOMAIN queries |->
        [queries[i] EXCEPT !.order = IF @ = "asc" THEN "desc" ELSE "asc"]]

\* C7: when all sub-queries share a sort field that has a comparator and one
\* order, and the fetched items have pairwise distinct keys, the same items
\* aggregated under the opposite order come out in the opposite sequence.
C7_OrderDecidesDirection ==
    ( /\ aggPc = "resolved"
      /\ AllShareSort /\ allQueryData[1].sort \in byName
      /\ AllOrder("asc") \/ AllOrder("desc")
      /\ \A i \in DOMAIN Fetched, j \in DOMAIN Fetched :
            i # j => Compare(comparatorFor(allQueryData), Fetched[i], Fetched[j]) # 0 )
    => sortItems(FlipOrder(allQueryData), Fetched) = Reverse(Raw)

\* C8: the responses arrive sub-query by sub-query in statement order and,
\* within a sub-query, page by page; unless the run has at least two
\* sub-queries that all declare the same sort field, the committed item list
\* is the concatenation of the responses in that order.
C8_SortOnlyWhenAllShare ==
    aggPc = "resolved"
    => /\ \A i \in DOMAIN responseLog, j \in DOMAIN responseLog :
             i < j => \/ responseLog[i].query < responseLog[j].query
                      \/ /\ responseLog[i].query = responseLog[j].query
                         /\ responseLog[i].page < responseLog[j].page
       /\ ~AllShareSort => Raw = Fetched

\* three sub-queries of which only the first two share their sort field
\* (created) answered B, A and C: the items are committed as they came
C8_Witness ==
    /\ aggPc = "resolved"
    /\ Len(allQueryData) = 3
    /\ allQueryData[1].sort = "created" /\ allQueryData[2].sort = "created"
    /\ allQueryData[3].sort = "comments"
    /\ Len(responseLog) = 3 /\ responseLog[3].query = 3
    /\ Raw = <<ItemB, ItemA, ItemC>>

\* the positions of s that hold the first item with their URL
FirstOccurrences(s) ==
    {i \in DOMAIN s : \A j \in 1..(i - 1) : s[j].url # s[i].url}

\* the k-th of those positions
KthFirst(s, k) ==
    CHOOSE i \in FirstOccurrences(s) :
        Cardinality({j \in FirstOccurrences(s) : j <= i}) = k

\* C9: the rendered list of a resolved run holds every URL at most once: it
\* is the committed (concatenated, possibly sorted) item list restricted to
\* the first item of each URL, in the same order, and the result count is
\* its length.
C9_RenderKeepsFirstOccurrence ==
    aggPc = "resolved"
    => /\ \A i \in DOMAIN Rendered, j \in DOMAIN Rendered :
             i # j => Rendered[i].url # Rendered[j].url
       /\ Len(Rendered) = Cardinality(FirstOccurrences(Raw))
       /\ \A k \in DOMAIN Rendered : Rendered[k] = Raw[KthFirst(Raw, k)]
       /\ statusMessage.count = Len(Rendered)

\* the item of URL a came twice, around B: the list shows A, B
C9_Witness ==
    /\ aggPc = "resolved"
    /\ Raw = <<ItemA, ItemB, ItemA>>
    /\ Rendered = <<ItemA, ItemB>>
    /\ statusMessage.count = 2

\* C10: the item list a resolved run commits under x-application/github-issues
\* never holds two items with the same URL.
C10_RawListDeduplicated ==
    aggPc = "resolved"
    => \A i \in DOMAIN Raw, j \in DOMAIN Raw : i # j => Raw[i].url # Raw[j].url

\* ----------------------------------------------------------- symbol table
UserNames == {"$a", "$b"}
Data == symbols._data

\* the entries of a table that document uri contributed
RECURSIVE EntriesOf(_, _)
EntriesOf(data, uri) ==
    IF data = <<>> THEN <<>>
    ELSE IF data[1].uri = uri
         THEN <<data[1]>> \o EntriesOf(Tail(data), uri)
         ELSE EntriesOf(Tail(data), uri)

\* one entry per VariableDefinition among the nodes, optionally of one name
RECURSIVE DefsOf(_, _, _)
DefsOf(nodes, uri, names) ==
    IF nodes = <<>> THEN <<>>
    ELSE IF nodes[1]._type = "VariableDefinition" /\ nodes[1].name \in names
         THEN <<SymbolInfo(nodes[1].name, uri, nodes[1], NoValue)>>
              \o DefsOf(Tail(nodes), uri, names)
         ELSE DefsOf(Tail(nodes), uri, names)

\* the positions of the entries named name
Positions(data, name) == {i \in DOMAIN data : data[i].name = name}
Max(S) == CHOOSE x \in S : \A y \in S : y <= x

\* C14: when entries named name have been added, get(name) is the one added
\* last.
C14_GetReturnsMostRecent ==
    \A name \in UserNames :
        Positions(Data, name) # {}
        => get(Data, name) = Data[Max(Positions(Data, name))]

\* C15: after fillSymbols has returned for a document, the entries of that
\* document are exactly one per VariableDefinition of the tree it was given.
C15_RefillReplacesEntries ==
    (symCall.n > 0 /\ ~symCall.failed)
    => EntriesOf(Data, symCall.uri) = DefsOf(symCall.query, symCall.uri, UserNames)

\* the table a call found (the one it creates when there was none)
Before == IF symCall.n = 1 THEN NewSymbolTable ELSE symCall.before
AllNames == UserNames \cup {qualifiers[i].name : i \in DOMAIN qualifiers}

\* C16: getAll(name) yields entries of that name only; after a call of
\* fillSymbols that returned it yields all it yielded before the call followed
\* by one entry per VariableDefinition of that name in the tree, and after a
\* call that threw it still yields all it yielded before.
C16_GetAllYieldsEveryDefinition ==
    symbols.defined =>
    \A name \in AllNames :
        LET all == getAll(Data, name)
            old == getAll(Before, name)
        IN /\ \A i \in DOMAIN all : all[i].name = name
           /\ Len(all) = Cardinality(Positions(Data, name))
           /\ ~symCall.failed
              => all = old \o DefsOf(symCall.query, symCall.uri, {name})
           /\ symCall.failed
              => Len(all) >= Len(old) /\ SubSeq(all, 1, Len(old)) = old

\* both documents define $a, one of them twice, and $b is defined as well
C16_Witness ==
    /\ symCall.n = SymMaxCalls
    /\ Len(getAll(Data, "$a")) >= 3
    /\ \E i, j \in DOMAIN Data :
          /\ Data[i].name = "$a" /\ Data[j].name = "$a"
          /\ Data[i].uri = "u1" /\ Data[j].uri = "u2"
    /\ getAll(Data, "$b") # <<>>

\* C17: after a call of fillSymbols that threw, the entries of the document
\* are those it had before the call.
C17_FailedUpdateLeavesEntries ==
    symCall.failed
    => EntriesOf(Data, symCall.uri) = EntriesOf(symCall.before, symCall.uri)

\* the entries without a defining document
BuiltIns == EntriesOf(Data, "undefined")

\* C18: the table holds, for each qualifier of the schema, exactly one entry
\* without defining document and node, carrying the qualifier's value domain,
\* and no other entry without a defining document.
C18_BuiltInsSeededOnce ==
    symbols.defined =>
    /\ Len(BuiltIns) = Len(qualifiers)
    /\ \A q \in DOMAIN qualifiers :
          /\ Cardinality({i \in DOMAIN BuiltIns :
                             BuiltIns[i].name = qualifiers[q].name}) = 1
          /\ \E i \in DOMAIN BuiltIns :
                /\ BuiltIns[i].name = qualifiers[q].name
                /\ BuiltIns[i].value = qualifiers[q].value
                /\ BuiltIns[i].def = NoNode

\* fillSymbols was called SymMaxCalls times, for both documents, and added
\* definitions
C18_Witness ==
    /\ symCall.n = SymMaxCalls
    /\ EntriesOf(Data, "u1") # <<>>
    /\ EntriesOf(Data, "u2") # <<>>

\* ------------------------------------------------------ generation tokens
\* the runs whose token is the current token of cell c
Matching(c) ==
    {r \in DOMAIN executions : CellOf(r) = c /\ _isLatest(World, r)}

\* C19: the token of a run is greater than the token of every run constructed
\* before it; at most one run of a cell matches the cell's token, and a run
\* matches it exactly when it is the run started last for the cell and has
\* not been cancelled.
C19_TokensIncreaseOneLatest ==
    /\ \A r1 \in DOMAIN executions, r2 \in DOMAIN executions :
          r1 < r2 => executions[r1].token < executions[r2].token
    /\ \A r \in DOMAIN executions : executions[r].token < tokenPool
    /\ \A c \in DOMAIN cells : Cardinality(Matching(c)) <= 1
    /\ \A r \in DOMAIN executions :
          _isLatest(World, r)
          <=> (cellExecutions[CellOf(r)] = r /\ ~executions[r].cts)

\* the second run of a cell matches the cell's token while the first one,
\* cancelled by the re-run, is still in flight
C19_Witness ==
    \E r1 \in DOMAIN executions, r2 \in DOMAIN executions :
        /\ r1 < r2 /\ CellOf(r1) = CellOf(r2)
        /\ executions[r1].cts /\ InFlight(executions[r1])
        /\ Matching(CellOf(r2)) = {r2}

\* ------------------------------------------------------------ paging loop
\* the responses received for sub-query q
LogOf(q) == SelectSeq(responseLog, LAMBDA e : e.query = q)

\* this step receives a response (got, total)
Receives == Len(totals') = Len(totals) + 1
GotNow == responseLog'[Len(responseLog')].items
TotalNow == totals'[Len(totals')]

\* this step requests a further page of the sub-query under way
FurtherPage ==
    /\ aggPc = "fetch" /\ aggPc' = "fetch"
    /\ queryIndex' = queryIndex /\ page' # page

\* C11: a further page of a sub-query is requested only by a step that
\* receives a response, while cancellation has not been requested and the
\* items counted for the sub-query are fewer than min(1000, total of that
\* response); a response that brings the count to that bound, and any
\* response reporting a total of 0, is followed by no request for the
\* sub-query; the first page of a sub-query is not requested after
\* cancellation either.
C11_PagingStopsAtBound ==
    [][/\ FurtherPage
          => /\ Receives /\ ~cancelled
             /\ count' = count + Len(GotNow)
             /\ count' < Min(ResultCap, TotalNow)
       /\ (Receives /\ count + Len(GotNow) >= Min(ResultCap, TotalNow))
          => ~FurtherPage
       /\ (Receives /\ TotalNow = 0) => ~FurtherPage
       /\ (aggPc' = "fetch" /\ queryIndex' # queryIndex) => ~cancelled]_vars

\* the first sub-query stopped after ten full pages of a result set of more
\* than 1000 items, and the second sub-query has been requested
C11_Witness ==
    /\ aggPc = "fetch" /\ queryIndex = 2 /\ page = 1
    /\ Len(LogOf(1)) * PerPage = ResultCap
    /\ Len(allItems) = ResultCap
    /\ \A i \in DOMAIN totals : totals[i] > ResultCap

\* the urls of the items the responses delivered
UrlsFetched == {Fetched[i].url : i \in DOMAIN Fetched}

\* C12: the status message a successful run commits is "<n>[+] results" with
\* n the number of distinct urls among the items the run fetched, and with
\* the "+" exactly when some response reported a total above 1000.
C12_StatusCountsDistinctUrls ==
    (aggPc = "resolved" /\ ~cancelled)
    => statusMessage =
          [count |-> Cardinality(UrlsFetched),
           plus |-> \E i \in DOMAIN totals : totals[i] > ResultCap]

\* a run fetched three items with two distinct urls, its first response
\* reporting more than 1000 results, and resolved with "2+ results"
C12_Witness ==
    /\ aggPc = "resolved" /\ ~cancelled
    /\ Len(Fetched) = 3
    /\ totals[1] > ResultCap
    /\ statusMessage = [count |-> 2, plus |-> TRUE]

\* C20: the responses of a sub-query are those of its pages 1, 2, 3, ... in
\* this order, the sub-queries follow one another, and while a request is
\* outstanding it is the one for the page after the last response of its
\* sub-query, issued with every earlier response accumulated.
C20_PagesStrictlySequential ==
    /\ \A q \in DOMAIN allQueryData :
          \A i \in DOMAIN LogOf(q) : LogOf(q)[i].page = i
    /\ \A i \in DOMAIN responseLog, j \in DOMAIN responseLog :
          i < j => responseLog[i].query <= responseLog[j].query
    /\ aggPc = "fetch"
       => /\ page = Len(LogOf(queryIndex)) + 1
          /\ count = Len(FlattenLog(LogOf(queryIndex)))
          /\ allItems = Fetched
          /\ \A i \in DOMAIN responseLog : responseLog[i].query <= queryIndex

\* the second sub-query has received two pages and its third page is
\* outstanding
C20_Witness ==
    /\ aggPc = "fetch" /\ queryIndex = 2 /\ page = 3
    /\ Len(LogOf(2)) = 2

\* -------------------------------------------------------- executeAllCells
\* the cells for which document run d has called executeCell, in call order
StartedBy(d) ==
    [i \in DOMAIN docExecutions[d].runs |->
        executions[docExecutions[d].runs[i]].cell]

\* C13: the cells a document run has started are the runnable code cells of
\* the document up to the last one started, in document order; every cell
\* run it started but the last has settled; and a step taken after the
\* cancellation of the document run was requested starts no cell for it.
C13_DocRunIsSequential ==
    /\ [](\A d \in DOMAIN docExecutions :
            LET started == StartedBy(d)
                runs == docExecutions[d].runs
            IN /\ \A i \in DOMAIN started, j \in DOMAIN started :
                     i < j => started[i] < started[j]
               /\ \A c \in DOMAIN cellKinds :
                     (\E i \in DOMAIN started : started[i] = c)
                     <=> /\ cellKinds[c] = "code"
                         /\ started # <<>> /\ c <= Last(started)
               /\ \A i \in DOMAIN runs :
                     i < Len(runs) => ~InFlight(executions[runs[i]]))
    /\ [][\A d \in DOMAIN docExecutions :
             docExecutions[d].cts
             => docExecutions'[d].runs = docExecutions[d].runs]_vars

\* a document run over a code cell, a markdown cell and a code cell awaits the
\* run of its third cell after the run of its first cell has settled
C13_Witness ==
    \E d \in DOMAIN docExecutions :
        /\ cellKinds = <<"code", "markdown", "code">>
        /\ StartedBy(d) = <<1, 3>>
        /\ docExecutions[d].pc = "await" /\ ~docExecutions[d].cts
        /\ InFlight(executions[Last(docExecutions[d].runs)])

\* ------------------------------------------------- symbols of two documents
\* C21: after a call of fillSymbols for one document, whether it returned or
\* threw, the entries every other document contributed are those the table
\* held before the call, in the same order.
C21_OtherDocumentsUntouched ==
    symCall.n > 0
    => \A uri \in Uris \ {symCall.uri} :
          EntriesOf(Data, uri) = EntriesOf(Before, uri)

\* u1 was filled after u2, and both documents define $a
C21_Witness ==
    /\ symCall.n >= 2 /\ symCall.uri = "u1"
    /\ \E i \in DOMAIN Data, j \in DOMAIN Data :
          /\ i < j
          /\ Data[i].uri = "u2" /\ Data[i].name = "$a"
          /\ Data[j].uri = "u1" /\ Data[j].name = "$a"
          /\ Data[j].def \in {symCall.query[k] : k \in DOMAIN symCall.query}

\* ---------------------------------------------------------- settled runs
\* C22: when a run has settled, by returning or by an exception, and no newer
\* run was started for its cell, the cell's run state is not Running.
C22_SettledRunNotRunning ==
    \A r \in DOMAIN executions :
        (~InFlight(executions[r]) /\ ~Superseded(r))
        => cells[CellOf(r)].runState # "Running"

\* C23: a step that cancels the execution registered for a cell (its token is
\* deleted) after that execution has resolved or rejected leaves the cell's
\* run state, outputs and status message as they were.
C23_CancelAfterCompletionIsNoOp ==
    [][\A c \in DOMAIN cells :
          ( /\ cellExecutions[c] # NoExecution
            /\ executions[cellExecutions[c]].pc \in {"resolved", "rejected"}
            /\ tokens[c] # NoToken /\ tokens'[c] = NoToken )
          => /\ cells'[c].runState = cells[c].runState
             /\ cells'[c].outputs = cells[c].outputs
             /\ cells'[c].statusMessage = cells[c].statusMessage]_vars

\* -------------------------------------------------- document-wide runs
\* the step requests the cancellation of document run d, which is in flight
DocCancelled(d) ==
    /\ docExecutions[d].pc = "await"
    /\ ~docExecutions[d].cts /\ docExecutions'[d].cts

\* the step constructs a document run
DocStarted == Len(docExecutions') > Len(docExecutions)

RECURSIVE RunnableFrom(_)
RunnableFrom(c) ==
    IF c > Len(cellKinds) THEN <<>>
    ELSE IF cellKinds[c] = "code" THEN <<c>> \o RunnableFrom(c + 1)
         ELSE RunnableFrom(c + 1)

\* C25: a document run that has ended without having been cancelled has
\* called executeCell once for every runnable code cell, in document order,
\* and for no other cell, whatever the outcome of the cells; the step in which
\* it ends sets the document's run state to Idle.
C25_DocRunExecutesEveryCell ==
    /\ [](\A d \in DOMAIN docExecutions :
            (docExecutions[d].pc # "await" /\ ~docExecutions[d].cts)
            => StartedBy(d) = RunnableFrom(1))
    /\ [][\A d \in DOMAIN docExecutions :
             ( /\ docExecutions[d].pc = "await" /\ ~docExecutions[d].cts
               /\ docExecutions'[d].pc # "await" )
             => docRunState' = "Idle"]_vars

\* the lock flags held by a metadata object
Flags(m) == [k \in {"editable", "cellEditable"} \cap DOMAIN m |-> m[k]]
\* the call of this edit changed the lock state: the flags were the opposite
Toggles(e) ==
    IF e.cell = NoCell
    THEN /\ {"editable", "cellEditable"} \subseteq DOMAIN e.before
         /\ e.before.editable = e.locked
         /\ e.before.cellEditable = e.locked
    ELSE e.before.editable = e.locked
\* the flags this edit's call wrote
Changed(e) ==
    IF e.cell = NoCell THEN [editable |-> ~e.locked, cellEditable |-> ~e.locked]
    ELSE [editable |-> ~e.locked]

\* C26: for an edit of setCellLockState or setDocumentLockState whose call
\* toggled the lock state, the host's call of undo puts the editable flags of
\* the cell or notebook back to what they were before the call, and the
\* host's call of redo afterwards writes the changed flags again.
C26_UndoReversesLockChange ==
    [][/\ (edits' = edits /\ editPos' = editPos - 1 /\ Toggles(edits[editPos]))
          => LET e == edits[editPos] IN
             Flags(IF e.cell = NoCell THEN notebookMetadata'
                   ELSE cellMetadata'[e.cell]) = Flags(e.before)
       /\ (edits' = edits /\ editPos' = editPos + 1 /\ Toggles(edits[editPos + 1]))
          => LET e == edits[editPos + 1] IN
             Flags(IF e.cell = NoCell THEN notebookMetadata'
                   ELSE cellMetadata'[e.cell]) = Changed(e)]_vars

====
